---- MODULE Spec2Model ----
(***************************************************************************)
(* A model of hashdist's conda-compatible version ordering and constraint  *)
(* matching (hashdist/spec/conda_version_matching.py), and of two of its   *)
(* file utilities (hashdist/core/fileutils.py).                            *)
(*                                                                         *)
(* A Python string is a sequence of one-character strings, so that         *)
(* splitting, stripping, case folding and lexicographic comparison are     *)
(* computed the way the code computes them.                                *)
(***************************************************************************)
EXTENDS Integers, Sequences, FiniteSets, TLC

VARIABLES
    phase,      \* the step the sequential scenario has reached
    args,       \* ordering: the raw version strings handed to _VersionOrder
    objs,       \* ordering: what _VersionOrder made of each of args
    rel,        \* ordering: the results of __lt__ and __eq__ on each pair of objs
    pool,       \* cache: the raw version strings the callers pass
    cache,      \* cache: _version_cache, raw string -> object (0: no entry)
    heap,       \* cache: the _VersionOrder objects allocated so far
    thr,        \* cache: each thread's position in _VersionOrder.__new__ and its locals
    mtext,      \* matching: the spec text handed to _MatchSpec
    cand,       \* matching: the candidate handed to match
    mspec,      \* matching: what _MatchSpec made of mtext
    mout,       \* matching: the results of match, __str__ and the second compilation
    vin,        \* combinators: the spec texts a, b, c and the version string v
    vobj,       \* combinators: the compiled a, b, c and the combination s built from them
    vout,       \* combinators: the results of match, str and the second compilation
    fs,         \* files: the directory entries dest and dest-<i>
    lk,         \* files: each caller's position in atomic_symlink and its locals
    rm          \* files: the position in robust_rmtree, its locals and what it did

orderVars == <<args, objs, rel>>
cacheVars == <<pool, cache, heap, thr>>
matchVars == <<mtext, cand, mspec, mout>>
vspecVars == <<vin, vobj, vout>>
fileVars == <<fs, lk, rm>>
vars == <<phase, orderVars, cacheVars, matchVars, vspecVars, fileVars>>

\* what each scenario leaves alone
notOrder == <<cacheVars, matchVars, vspecVars, fileVars>>
notCache == <<phase, orderVars, matchVars, vspecVars, fileVars>>
notMatch == <<orderVars, cacheVars, vspecVars, fileVars>>
notVSpec == <<orderVars, cacheVars, matchVars, fileVars>>
notFile == <<phase, orderVars, cacheVars, matchVars, vspecVars>>

\* the parts of the state a scenario does not use
OrderIdle == args = <<>> /\ objs = <<>> /\ rel = [lt |-> <<>>, eq |-> <<>>]
CacheIdle == pool = {} /\ cache = <<>> /\ heap = <<>> /\ thr = <<>>
MatchIdle == mtext = <<>> /\ cand = <<>> /\ mspec = <<>> /\ mout = <<>>
VSpecIdle == vin = <<>> /\ vobj = <<>> /\ vout = <<>>
FileIdle == fs = <<>> /\ lk = <<>> /\ rm = <<>>

-----------------------------------------------------------------------------
(* Characters and strings                                                  *)

\* The printable ASCII characters, code points 32..126 in order.
Printable ==
    << " ", "!", "dquote", "#", "$", "%", "&", "'", "(", ")", "*", "+", ",", "-", ".", "/",
       "0", "1", "2", "3", "4", "5", "6", "7", "8", "9", ":", ";", "<", "=", ">", "?",
       "@", "A", "B", "C", "D", "E", "F", "G", "H", "I", "J", "K", "L", "M", "N", "O",
       "P", "Q", "R", "S", "T", "U", "V", "W", "X", "Y", "Z", "[", "\\", "]", "^", "_",
       "bquote", "a", "b", "c", "d", "e", "f", "g", "h", "i", "j", "k", "l", "m", "n", "o",
       "p", "q", "r", "s", "t", "u", "v", "w", "x", "y", "z", "{", "|", "}", "~" >>

Chars == {Printable[i] : i \in 1..Len(Printable)}

\* ord(ch)
Ord(ch) == 31 + (CHOOSE i \in 1..Len(Printable) : Printable[i] = ch)

Digits == {"0", "1", "2", "3", "4", "5", "6", "7", "8", "9"}

LowerLetters ==
    {"a", "b", "c", "d", "e", "f", "g", "h", "i", "j", "k", "l", "m",
     "n", "o", "p", "q", "r", "s", "t", "u", "v", "w", "x", "y", "z"}

UpperLetters ==
    {"A", "B", "C", "D", "E", "F", "G", "H", "I", "J", "K", "L", "M",
     "N", "O", "P", "Q", "R", "S", "T", "U", "V", "W", "X", "Y", "Z"}

\* str.isdigit() of a one-character string
IsDigitCh(ch) == ch \in Digits

\* str.lower() of a one-character string
LowerCh(ch) == IF ch \in UpperLetters THEN Printable[Ord(ch) + 32 - 31] ELSE ch

\* str.lower()
Lower(s) == [i \in 1..Len(s) |-> LowerCh(s[i])]

\* the characters occurring in a string
CharsOf(s) == {s[i] : i \in 1..Len(s)}

\* sub in s, for a one-character sub
Contains(s, ch) == ch \in CharsOf(s)

\* s[i:] of Python, 0-based i
From(s, i) == SubSeq(s, i + 1, Len(s))

\* s[:i] of Python, 0-based i
Upto(s, i) == SubSeq(s, 1, IF i < Len(s) THEN i ELSE Len(s))

\* str.strip(): whitespace removed at both ends
RECURSIVE LStrip(_)
LStrip(s) == IF s # <<>> /\ Head(s) = " " THEN LStrip(Tail(s)) ELSE s

RECURSIVE RStrip(_)
RStrip(s) == IF s # <<>> /\ s[Len(s)] = " " THEN RStrip(SubSeq(s, 1, Len(s) - 1)) ELSE s

Strip(s) == RStrip(LStrip(s))

\* str.rstrip(ch): every trailing ch removed
RECURSIVE RStripCh(_, _)
RStripCh(s, ch) ==
    IF s # <<>> /\ s[Len(s)] = ch THEN RStripCh(SubSeq(s, 1, Len(s) - 1), ch) ELSE s

\* str.replace(old, new) for one-character old and new
ReplaceCh(s, old, new) == [i \in 1..Len(s) |-> IF s[i] = old THEN new ELSE s[i]]

\* str.replace(old, new) for a one-character old and any new
RECURSIVE ReplaceWith(_, _, _)
ReplaceWith(s, old, new) ==
    IF s = <<>> THEN <<>>
    ELSE (IF Head(s) = old THEN new ELSE <<Head(s)>>) \o ReplaceWith(Tail(s), old, new)

\* position of the first ch in s, 0 when there is none
FirstIndex(s, ch) ==
    IF Contains(s, ch) THEN CHOOSE i \in 1..Len(s) : s[i] = ch /\ \A j \in 1..(i - 1) : s[j] # ch
    ELSE 0

\* str.split(sep) for a one-character sep: always at least one piece
RECURSIVE SplitOn(_, _)
SplitOn(s, sep) ==
    LET i == FirstIndex(s, sep)
    IN  IF i = 0 THEN <<s>>
        ELSE <<SubSeq(s, 1, i - 1)>> \o SplitOn(SubSeq(s, i + 1, Len(s)), sep)

\* str.split(): pieces between runs of whitespace, none of them empty
RECURSIVE SplitWhite(_)
SplitWhite(s) ==
    LET t == LStrip(s)
        i == FirstIndex(t, " ")
    IN  IF t = <<>> THEN <<>>
        ELSE IF i = 0 THEN <<t>>
        ELSE <<SubSeq(t, 1, i - 1)>> \o SplitWhite(SubSeq(t, i + 1, Len(t)))

\* sep.join(parts)
RECURSIVE Join(_, _)
Join(parts, sep) ==
    IF parts = <<>> THEN <<>>
    ELSE IF Len(parts) = 1 THEN parts[1]
    ELSE parts[1] \o sep \o Join(Tail(parts), sep)

\* str.startswith(prefix)
StartsWith(s, prefix) == Len(s) >= Len(prefix) /\ SubSeq(s, 1, Len(prefix)) = prefix

\* str.endswith(suffix)
EndsWith(s, suffix) ==
    Len(s) >= Len(suffix) /\ SubSeq(s, Len(s) - Len(suffix) + 1, Len(s)) = suffix

\* s1 < s2 on strings: lexicographic by code point
RECURSIVE StrLt(_, _)
StrLt(s1, s2) ==
    IF s2 = <<>> THEN FALSE
    ELSE IF s1 = <<>> THEN TRUE
    ELSE IF Head(s1) = Head(s2) THEN StrLt(Tail(s1), Tail(s2))
    ELSE Ord(Head(s1)) < Ord(Head(s2))

\* int(s) of a string of decimal digits
RECURSIVE IntOf(_)
IntOf(s) == IF s = <<>> THEN 0 ELSE 10 * IntOf(SubSeq(s, 1, Len(s) - 1)) + (Ord(s[Len(s)]) - 48)

\* str.isdigit(): non-empty and all digits
IsDigitStr(s) == s # <<>> /\ \A i \in 1..Len(s) : IsDigitCh(s[i])

-----------------------------------------------------------------------------
(* _VersionOrder: parsing                                                  *)

\* the characters _version_check_re accepts
VersionCheckChars == {"*", ".", "+", "!", "_"} \cup Digits \cup LowerLetters

\* _version_check_re.match(s): one or more accepted characters, nothing else
version_check_re(s) == s # <<>> /\ CharsOf(s) \subseteq VersionCheckChars

\* the alternative of _version_split_re a character belongs to
RunClass(ch) == IF IsDigitCh(ch) THEN "num" ELSE IF ch = "*" THEN "star" ELSE "other"

\* _version_split_re.findall(s): the maximal runs of numerals, of '*', of anything else
RECURSIVE version_split_re(_)
version_split_re(s) ==
    IF s = <<>> THEN <<>>
    ELSE LET cls == RunClass(Head(s))
             n == CHOOSE n \in 1..Len(s) :
                      /\ \A i \in 1..n : RunClass(s[i]) = cls
                      /\ (n = Len(s) \/ RunClass(s[n + 1]) # cls)
         IN  <<SubSeq(s, 1, n)>> \o version_split_re(SubSeq(s, n + 1, Len(s)))

\* The subcomponents of a parsed version: an int, a str, or float('inf').
IntTok(n) == [k |-> "int", n |-> n, s |-> <<>>]
StrTok(s) == [k |-> "str", n |-> 0, s |-> s]
InfTok == [k |-> "inf", n |-> 0, s |-> <<>>]

IsStr(c) == c.k = "str"

\* the conversion of one run: numerals to int, 'post' to infinity, 'dev' to 'DEV'
ConvertRun(r) ==
    IF IsDigitStr(r) THEN IntTok(IntOf(r))
    ELSE IF r = <<"p", "o", "s", "t">> THEN InfTok
    ELSE IF r = <<"d", "e", "v">> THEN StrTok(<<"D", "E", "V">>)
    ELSE StrTok(r)

\* An element of self.version / self.local: the component's text until the
\* splitting loop reaches it, the list of its subcomponents afterwards.
RawComp(s) == [split |-> FALSE, raw |-> s, toks |-> <<>>]
SplitComp(c) == [split |-> TRUE, raw |-> <<>>, toks |-> c]

\* one iteration of the splitting loop on the component text s
SplitComponent(s, fillvalue) ==
    LET runs == version_split_re(s)
        c == [j \in 1..Len(runs) |-> ConvertRun(runs[j])]
    IN  IF runs = <<>> THEN [err |-> "empty version component.", comp |-> RawComp(s)]
        ELSE IF IsDigitCh(s[1]) THEN [err |-> "", comp |-> SplitComp(c)]
        ELSE [err |-> "", comp |-> SplitComp(<<IntTok(fillvalue)>> \o c)]

\* a fill value that makes 1.1 < 1.1.0 (the alternative the code's comment names)
FillValueMinusOne == 0 - 1

\* self.fillvalue
FillValue == 0

\* object.__new__(cls): no attribute set yet
NewObject == [has |-> {}, fillvalue |-> 0, norm_version |-> <<>>, version |-> <<>>, local |-> <<>>]

\* normalisation and the basic validity checks; norm is self.norm_version
CheckVersion(raw) ==
    LET v0 == Lower(RStrip(Strip(raw)))
        invalid0 == ~version_check_re(v0)
        dash == invalid0 /\ Contains(v0, "-") /\ ~Contains(v0, "_")
        v1 == IF dash THEN ReplaceCh(v0, "-", "_") ELSE v0
        invalid == IF dash THEN ~version_check_re(v1) ELSE invalid0
    IN  IF v0 = <<>> THEN [err |-> "Empty version string.", norm |-> <<>>]
        ELSE IF invalid THEN [err |-> "invalid character(s).", norm |-> <<>>]
        ELSE [err |-> "", norm |-> v1]

\* find epoch: the text of the epoch and the rest of the version
FindEpoch(norm) ==
    LET version == SplitOn(norm, "!")
    IN  IF Len(version) = 1 THEN [err |-> "", epoch |-> <<"0">>, rest |-> version[1]]
        ELSE IF Len(version) = 2
        THEN IF ~IsDigitStr(version[1])
             THEN [err |-> "epoch must be an integer.", epoch |-> <<>>, rest |-> <<>>]
             ELSE [err |-> "", epoch |-> version[1], rest |-> version[2]]
        ELSE [err |-> "duplicated epoch separator '!'.", epoch |-> <<>>, rest |-> <<>>]

\* the components of one part: '_' is '.', split at '.'
Components(s) ==
    LET parts == SplitOn(ReplaceCh(s, "_", "."), ".")
    IN  [i \in 1..Len(parts) |-> RawComp(parts[i])]

\* find local version string: self.local and the main version text
FindLocal(rest) ==
    LET version == SplitOn(rest, "+")
    IN  IF Len(version) = 1 THEN [err |-> "", local |-> <<>>, main |-> version[1]]
        ELSE IF Len(version) = 2
        THEN [err |-> "", local |-> Components(version[2]), main |-> version[1]]
        ELSE [err |-> "duplicated local version separator '+'.", local |-> <<>>, main |-> <<>>]

\* the epoch appended after the components instead of put in front of them
SplitVersionEpochLast(epoch, main) == Components(main) \o <<RawComp(epoch)>>

\* split version: self.version = epoch + components
SplitVersion(epoch, main) == <<RawComp(epoch)>> \o Components(main)

\* the splitting loop over one list, run to its end or to its first error
RECURSIVE SplitAll(_, _, _)
SplitAll(v, k, fillvalue) ==
    IF k > Len(v) THEN [err |-> "", v |-> v]
    ELSE LET r == SplitComponent(v[k].raw, fillvalue)
         IN  IF r.err # "" THEN [err |-> r.err, v |-> v]
             ELSE SplitAll([v EXCEPT ![k] = r.comp], k + 1, fillvalue)

\* the splitting loop over self.local, after the one over self.version
ParseSplitLocal(o5, sl) == [err |-> sl.err, obj |-> [o5 EXCEPT !.local = sl.v]]

\* the splitting loop over self.version
ParseSplitVersion(o4, sv) ==
    IF sv.err # "" THEN [err |-> sv.err, obj |-> [o4 EXCEPT !.version = sv.v]]
    ELSE ParseSplitLocal([o4 EXCEPT !.version = sv.v], SplitAll(o4.local, 1, o4.fillvalue))

\* self.local and self.version are set, then split
ParseLocal(o2, epoch, lo) ==
    IF lo.err # "" THEN [err |-> lo.err, obj |-> o2]
    ELSE ParseSplitVersion([o2 EXCEPT !.has = @ \cup {"local", "version"}, !.local = lo.local,
                                      !.version = SplitVersion(epoch, lo.main)],
                           SplitAll(SplitVersion(epoch, lo.main), 1, o2.fillvalue))

\* the epoch is found, then the local version string
ParseEpoch(o2, ep) ==
    IF ep.err # "" THEN [err |-> ep.err, obj |-> o2] ELSE ParseLocal(o2, ep.epoch, FindLocal(ep.rest))

\* self.norm_version is set once the checks have passed
ParseChecked(o1, chk) ==
    IF chk.err # "" THEN [err |-> chk.err, obj |-> o1]
    ELSE ParseEpoch([o1 EXCEPT !.has = @ \cup {"norm_version"}, !.norm_version = chk.norm],
                    FindEpoch(chk.norm))

\* _VersionOrder.__new__ run alone on a string that is not in the cache:
\* err is the ValueError raised ("" for none), obj the object as it is left
ParseVersion(raw) ==
    ParseChecked([NewObject EXCEPT !.has = {"fillvalue"}, !.fillvalue = FillValue],
                 CheckVersion(raw))

\* the lists of subcomponents of a fully parsed version or local part
Toks(v) == [i \in 1..Len(v) |-> v[i].toks]

-----------------------------------------------------------------------------
(* _VersionOrder: comparison                                               *)

Max(m, n) == IF m >= n THEN m ELSE n

\* zip_longest(t1, t2, fillvalue=fill): the pairs, the shorter side padded
ZipLongest(t1, t2, fill) ==
    [i \in 1..Max(Len(t1), Len(t2)) |->
        <<IF i <= Len(t1) THEN t1[i] ELSE fill, IF i <= Len(t2) THEN t2[i] ELSE fill>>]

\* the (c1, c2) pairs the nested loops of _eq and __lt__ visit over t1, t2, in order
RECURSIVE Flatten(_)
Flatten(ss) == IF ss = <<>> THEN <<>> ELSE Head(ss) \o Flatten(Tail(ss))

TokenPairs(t1, t2, fillvalue) ==
    LET vs == ZipLongest(t1, t2, <<>>)
    IN  Flatten([i \in 1..Len(vs) |-> ZipLongest(vs[i][1], vs[i][2], IntTok(fillvalue))])

\* _VersionOrder._eq
VersionOrder_eq(self, t1, t2) ==
    LET ps == TokenPairs(t1, t2, self.fillvalue)
    IN  \A i \in 1..Len(ps) : ps[i][1] = ps[i][2]

\* _VersionOrder.__eq__
VersionOrder__eq__(self, other) ==
    /\ VersionOrder_eq(self, Toks(self.version), Toks(other.version))
    /\ VersionOrder_eq(self, Toks(self.local), Toks(other.local))

\* _VersionOrder.__ne__
VersionOrder__ne__(self, other) == ~VersionOrder__eq__(self, other)

\* c1 < c2 for two subcomponents of the same type (int or float('inf'); str)
SameTypeLt(c1, c2) ==
    IF IsStr(c1) THEN StrLt(c1.s, c2.s)
    ELSE IF c1.k = "inf" THEN FALSE
    ELSE IF c2.k = "inf" THEN TRUE
    ELSE c1.n < c2.n

\* __lt__ without its "str < int" branch: a string is never below a number
DecideLtNoStrBelowInt(c1, c2) ==
    IF IsStr(c1) /\ ~IsStr(c2) THEN FALSE
    ELSE IF ~IsStr(c1) /\ IsStr(c2) THEN FALSE
    ELSE SameTypeLt(c1, c2)

\* the body of the innermost loop of __lt__ at the first pair with c1 != c2
DecideLt(c1, c2) ==
    IF IsStr(c1) /\ ~IsStr(c2) THEN TRUE
    ELSE IF ~IsStr(c1) /\ IsStr(c2) THEN FALSE
    ELSE SameTypeLt(c1, c2)

\* _VersionOrder.__lt__
VersionOrder__lt__(self, other) ==
    LET ps == TokenPairs(Toks(self.version), Toks(other.version), self.fillvalue)
              \o TokenPairs(Toks(self.local), Toks(other.local), self.fillvalue)
        diff == {i \in 1..Len(ps) : ps[i][1] # ps[i][2]}
        first == CHOOSE i \in diff : \A j \in diff : i <= j
    IN  IF diff = {} THEN FALSE ELSE DecideLt(ps[first][1], ps[first][2])

\* _VersionOrder.__gt__
VersionOrder__gt__(self, other) == VersionOrder__lt__(other, self)

\* _VersionOrder.__le__
VersionOrder__le__(self, other) == ~VersionOrder__lt__(other, self)

\* _VersionOrder.__ge__
VersionOrder__ge__(self, other) == ~VersionOrder__lt__(self, other)

\* _VersionOrder.startswith
VersionOrder_startswith(self, other) ==
    LET useLocal == other.local # <<>>
        t1 == IF useLocal THEN Toks(self.local) ELSE Toks(self.version)
        t2 == IF useLocal THEN Toks(other.local) ELSE Toks(other.version)
        nt == Len(t2) - 1
        v1 == IF Len(t1) <= nt THEN <<>> ELSE t1[nt + 1]
        v2 == t2[nt + 1]
        mt == Len(v2) - 1
        c1 == IF Len(v1) <= mt THEN IntTok(self.fillvalue) ELSE v1[mt + 1]
        c2 == v2[mt + 1]
    IN  IF useLocal /\ ~VersionOrder_eq(self, Toks(self.version), Toks(other.version)) THEN FALSE
        ELSE IF ~useLocal /\ other.version = <<>> THEN TRUE
        ELSE IF ~VersionOrder_eq(self, Upto(t1, nt), Upto(t2, nt)) THEN FALSE
        ELSE IF ~VersionOrder_eq(self, <<Upto(v1, mt)>>, <<Upto(v2, mt)>>) THEN FALSE
        ELSE IF IsStr(c2) THEN IsStr(c1) /\ StartsWith(c1.s, c2.s)
        ELSE c1 = c2

-----------------------------------------------------------------------------
(* Regular expressions: the part of Python's re syntax the matchers are    *)
(* built from.  A pattern is '^', a body, '$'; the body may be wrapped in  *)
(* '(?:' ')', and is a sequence of characters, escaped characters and '.', *)
(* each optionally followed by '*'.                                        *)

\* the characters of a pattern with each escape sequence taken as one unit
RECURSIVE RegexUnits(_)
RegexUnits(p) ==
    IF p = <<>> THEN <<>>
    ELSE IF Head(p) = "\\" /\ Len(p) >= 2
         THEN <<[esc |-> TRUE, ch |-> p[2]]>> \o RegexUnits(SubSeq(p, 3, Len(p)))
         ELSE <<[esc |-> FALSE, ch |-> Head(p)]>> \o RegexUnits(Tail(p))

\* characters with a meaning of their own that the body may not contain
RegexMeta == {"(", ")", "[", "]", "{", "}", "?", "+", "|", "^", "$", "\\"}

\* the atoms of a body: [any, ch, star]; err "re.error" for a '*' with nothing
\* to repeat, "unsupported" for syntax outside the part modelled
RECURSIVE RegexAtoms(_, _)
RegexAtoms(units, done) ==
    IF units = <<>> THEN [err |-> "", atoms |-> done]
    ELSE LET u == Head(units)
             n == Len(done)
         IN  IF u.esc
             THEN IF u.ch \in {".", "+"}
                  THEN RegexAtoms(Tail(units), Append(done, [any |-> FALSE, ch |-> u.ch, star |-> FALSE]))
                  ELSE [err |-> "unsupported", atoms |-> <<>>]
             ELSE IF u.ch = "*"
             THEN IF n = 0 \/ done[n].star THEN [err |-> "re.error", atoms |-> <<>>]
                  ELSE RegexAtoms(Tail(units), [done EXCEPT ![n] = [@ EXCEPT !.star = TRUE]])
             ELSE IF u.ch = "."
             THEN RegexAtoms(Tail(units), Append(done, [any |-> TRUE, ch |-> ".", star |-> FALSE]))
             ELSE IF u.ch \in RegexMeta THEN [err |-> "unsupported", atoms |-> <<>>]
             ELSE RegexAtoms(Tail(units), Append(done, [any |-> FALSE, ch |-> u.ch, star |-> FALSE]))

\* re.compile(p): err "" and the atoms, or err "re.error" (unbalanced
\* parentheses, nothing to repeat), or err "unsupported"
RegexCompile(p) ==
    LET u == RegexUnits(p)
        n == Len(u)
        Is(i, ch) == i >= 1 /\ i <= n /\ ~u[i].esc /\ u[i].ch = ch
        opens == Cardinality({i \in 1..n : Is(i, "(")})
        closes == Cardinality({i \in 1..n : Is(i, ")")})
        wrapped == Is(2, "(") /\ Is(3, "?") /\ Is(4, ":") /\ Is(n - 1, ")") /\ n >= 6
        body == IF wrapped THEN SubSeq(u, 5, n - 2) ELSE SubSeq(u, 2, n - 1)
    IN  IF opens # closes THEN [err |-> "re.error", atoms |-> <<>>]
        ELSE IF ~(n >= 2 /\ Is(1, "^") /\ Is(n, "$")) THEN [err |-> "unsupported", atoms |-> <<>>]
        ELSE RegexAtoms(body, <<>>)

\* whether the atoms match the whole of s
RECURSIVE RegexFullMatch(_, _)
RegexFullMatch(atoms, s) ==
    IF atoms = <<>> THEN s = <<>>
    ELSE LET a == Head(atoms)
             hit == s # <<>> /\ (a.any \/ a.ch = Head(s))
         IN  IF a.star
             THEN RegexFullMatch(Tail(atoms), s) \/ (hit /\ RegexFullMatch(atoms, Tail(s)))
             ELSE hit /\ RegexFullMatch(Tail(atoms), Tail(s))

-----------------------------------------------------------------------------
(* _VersionSpec                                                            *)

\* The tag of a combinator tuple: the string 'all' or 'any' where the tuple
\* comes from parsing, the built-in function all or any where it comes from
\* __and__ or __or__.  A string never equals a function.
StrAll == "'all'"
StrAny == "'any'"
FnAll == "<built-in function all>"
FnAny == "<built-in function any>"

\* a _VersionSpec with no attribute set but spec
BareSpec ==
    [match |-> "", spec |-> <<>>, tag |-> "", kids |-> <<>>, op |-> <<>>, cmp |-> NewObject,
     regex |-> <<>>]

SpecError(e) == [err |-> e, vs |-> BareSpec]
SpecOk(v) == [err |-> "", vs |-> v]

\* _regex_split_re.match(spec).end(), 0 when there is no match: '^', one or
\* more non-blank characters (as few as possible), '$'
regex_split_re(spec) ==
    LET ends == {j \in 3..Len(spec) : spec[j] = "$" /\ \A i \in 2..(j - 1) : spec[i] # " "}
    IN  IF Len(spec) >= 3 /\ spec[1] = "^" /\ ends # {}
        THEN CHOOSE j \in ends : \A k \in ends : j <= k
        ELSE 0

\* _regex_split_converter
regex_split_converter(operator) == IF operator = "|" THEN StrAny ELSE StrAll

RelationOps == {<<"=", "=">>, <<"!", "=">>, <<"<", "=">>, <<">", "=">>, <<"<">>, <<">">>}

\* _version_relation_re.match(spec): an operator, not followed by one of
\* '=<>!', then non-blank characters to the end
version_relation_re(spec) ==
    LET op == IF Upto(spec, 2) \in RelationOps THEN Upto(spec, 2)
              ELSE IF Upto(spec, 1) \in RelationOps THEN Upto(spec, 1)
              ELSE <<>>
        b == From(spec, Len(op))
    IN  IF op # <<>> /\ b # <<>> /\ b[1] \notin {"=", "<", ">", "!"} /\ ~Contains(b, " ")
        THEN [ok |-> TRUE, op |-> op, b |-> b]
        ELSE [ok |-> FALSE, op |-> <<>>, b |-> <<>>]

\* the first error among the compiled children, "" when there is none
RECURSIVE FirstError(_)
FirstError(rs) ==
    IF rs = <<>> THEN "" ELSE IF Head(rs).err # "" THEN Head(rs).err ELSE FirstError(Tail(rs))

\* _VersionSpec.__new__ on a tuple (tag, children): the matcher is chosen by
\* comparing the tag with the string 'all'
VersionSpecOfTuple(tag, kids) ==
    [BareSpec EXCEPT !.tag = tag, !.kids = kids,
                     !.match = IF tag = StrAll THEN "all_match_" ELSE "any_match_"]

\* the glob of a wildcard spec as a regular expression
WildcardRegex(spec) ==
    <<"^", "(", "?", ":">>
    \o ReplaceWith(ReplaceWith(ReplaceWith(spec, ".", <<"\\", ".">>), "+", <<"\\", "+">>),
                   "*", <<".", "*">>)
    \o <<")", "$">>

\* _VersionSpec.__new__ on a string: err is the exception raised ("" for none)
\* _VersionSpec((tag, tuple(...))) over the compiled parts rs
VersionSpecOfParts(tag, rs) ==
    IF FirstError(rs) # "" THEN SpecError(FirstError(rs))
    ELSE SpecOk(VersionSpecOfTuple(tag, [i \in 1..Len(rs) |-> rs[i].vs]))

RECURSIVE VersionSpecNew(_)
VersionSpecNew(spec) ==
    LET end == regex_split_re(spec)
        m == version_relation_re(spec)
    IN  IF end > 0
        THEN IF Len(spec) > end
             THEN IF spec[end + 1] \notin {"|", ","} THEN SpecError("KeyError")
                  ELSE VersionSpecOfParts(regex_split_converter(spec[end + 1]),
                                          <<VersionSpecNew(Upto(spec, end)),
                                            VersionSpecNew(From(spec, end + 1))>>)
             ELSE LET rx == RegexCompile(spec)
                  IN  IF rx.err # "" THEN SpecError(rx.err)
                      ELSE SpecOk([BareSpec EXCEPT !.spec = Upto(spec, end), !.regex = rx.atoms,
                                                   !.match = "regex_match_"])
        ELSE IF Contains(spec, "|") THEN VersionSpecOfParts(StrAny, [i \in 1..Len(SplitOn(spec, "|")) |->
                                                                  VersionSpecNew(SplitOn(spec, "|")[i])])
        ELSE IF Contains(spec, ",") THEN VersionSpecOfParts(StrAll, [i \in 1..Len(SplitOn(spec, ",")) |->
                                                                  VersionSpecNew(SplitOn(spec, ",")[i])])
        ELSE IF spec # <<>> /\ spec[1] \in {"=", "<", ">", "!"}
        THEN IF ~m.ok THEN SpecError("Invalid spec")
             ELSE LET b == ParseVersion(m.b)
                  IN  IF b.err # "" THEN SpecError(b.err)
                      ELSE SpecOk([BareSpec EXCEPT !.spec = spec, !.op = m.op,
                                                   !.cmp = b.obj, !.match = "veval_match_"])
        ELSE IF spec = <<"*">> THEN SpecOk([BareSpec EXCEPT !.spec = spec, !.match = "triv_match_"])
        ELSE IF Contains(RStripCh(spec, "*"), "*")
        THEN LET rx == RegexCompile(WildcardRegex(spec))
             IN  IF rx.err # "" THEN SpecError(rx.err)
                 ELSE SpecOk([BareSpec EXCEPT !.spec = spec, !.regex = rx.atoms,
                                              !.match = "regex_match_"])
        ELSE IF EndsWith(spec, <<"*">>)
        THEN LET b == ParseVersion(RStripCh(RStripCh(spec, "*"), "."))
             IN  IF b.err # "" THEN SpecError(b.err)
                 ELSE SpecOk([BareSpec EXCEPT !.spec = spec, !.op = <<"startswith">>,
                                              !.cmp = b.obj, !.match = "veval_match_"])
        ELSE SpecOk([BareSpec EXCEPT !.spec = spec, !.match = "exact_match_"])

\* _opdict[op](a, b), and _VersionOrder.startswith(a, b)
ApplyOp(op, a, b) ==
    CASE op = <<"=", "=">> -> VersionOrder__eq__(a, b)
      [] op = <<"!", "=">> -> VersionOrder__ne__(a, b)
      [] op = <<"<", "=">> -> VersionOrder__le__(a, b)
      [] op = <<">", "=">> -> VersionOrder__ge__(a, b)
      [] op = <<"<">> -> VersionOrder__lt__(a, b)
      [] op = <<">">> -> VersionOrder__gt__(a, b)
      [] op = <<"startswith">> -> VersionOrder_startswith(a, b)

\* The result of a match: "T", "F", or "E" when it raises.
Tri(b) == IF b THEN "T" ELSE "F"

\* all(xs) over results computed one after the other: the first that is not
\* true decides
RECURSIVE AllOf(_)
AllOf(rs) == IF rs = <<>> THEN "T" ELSE IF Head(rs) # "T" THEN Head(rs) ELSE AllOf(Tail(rs))

\* any(xs): the first that is not false decides
RECURSIVE AnyOf(_)
AnyOf(rs) == IF rs = <<>> THEN "F" ELSE IF Head(rs) # "F" THEN Head(rs) ELSE AnyOf(Tail(rs))

\* self.match(vspec), by the matcher __new__ stored
RECURSIVE VersionSpecMatch(_, _)
VersionSpecMatch(self, vspec) ==
    CASE self.match = "exact_match_" -> Tri(self.spec = vspec)
      [] self.match = "regex_match_" -> Tri(RegexFullMatch(self.regex, vspec))
      [] self.match = "veval_match_" ->
            LET v == ParseVersion(vspec)
            IN  IF v.err # "" THEN "E" ELSE Tri(ApplyOp(self.op, v.obj, self.cmp))
      [] self.match = "all_match_" ->
            AllOf([i \in 1..Len(self.kids) |-> VersionSpecMatch(self.kids[i], vspec)])
      [] self.match = "any_match_" ->
            AnyOf([i \in 1..Len(self.kids) |-> VersionSpecMatch(self.kids[i], vspec)])
      [] self.match = "triv_match_" -> "T"

\* _VersionSpec.str
RECURSIVE VersionSpecStr(_, _)
VersionSpecStr(self, inand) ==
    IF self.tag = "" THEN self.spec
    ELSE LET newand == ~inand /\ self.tag = FnAll
             inand2 == inand /\ self.tag = FnAny
             s == Join([i \in 1..Len(self.kids) |-> VersionSpecStr(self.kids[i], newand)],
                       IF self.tag = StrAll THEN <<",">> ELSE <<"|">>)
         IN  IF inand2 THEN <<"(">> \o s \o <<")">> ELSE s

\* _VersionSpec.is_exact
VersionSpecIsExact(self) == self.match = "exact_match_"

\* _VersionSpec.__and__
VersionSpec__and__(self, other) == VersionSpecOfTuple(FnAll, <<self, other>>)

\* _VersionSpec.__or__
VersionSpec__or__(self, other) == VersionSpecOfTuple(FnAny, <<self, other>>)

-----------------------------------------------------------------------------
(* _MatchSpec                                                              *)

CONDA_TARBALL_EXTENSION == <<".", "t", "a", "r", ".", "b", "z", "2">>

\* self.target: None, or a string
NoTarget == [set |-> FALSE, val |-> <<>>]
Target(s) == [set |-> TRUE, val |-> s]

\* a _MatchSpec with target and optional at their defaults and nothing else set
BareMatchSpec ==
    [target |-> NoTarget, optional |-> FALSE, spec |-> <<>>, name |-> <<>>, strictness |-> 0,
     match_fast |-> "", version |-> BareSpec, version_str |-> <<>>, build_str |-> <<>>,
     build |-> <<>>]

MatchSpecError(e) == [err |-> e, ms |-> BareMatchSpec]
MatchSpecOk(m) == [err |-> "", ms |-> m]

\* spec.partition('('): the text before the first '(' and the text after it
PartitionParen(spec) ==
    LET i == FirstIndex(spec, "(")
    IN  IF i = 0 THEN [spec |-> spec, oparts |-> <<>>]
        ELSE [spec |-> SubSeq(spec, 1, i - 1), oparts |-> SubSeq(spec, i + 1, Len(spec))]

\* the loop over the attribute list: each opart sets optional or target, or
\* raises ValueError
RECURSIVE ApplyOparts(_, _)
ApplyOparts(oparts, self) ==
    IF oparts = <<>> THEN MatchSpecOk(self)
    ELSE LET opart == Head(oparts)
         IN  IF opart = <<"o", "p", "t", "i", "o", "n", "a", "l">>
             THEN ApplyOparts(Tail(oparts), [self EXCEPT !.optional = TRUE])
             ELSE IF StartsWith(opart, <<"t", "a", "r", "g", "e", "t", "=">>)
             THEN ApplyOparts(Tail(oparts),
                              [self EXCEPT !.target = Target(Strip(SplitOn(opart, "=")[2]))])
             ELSE MatchSpecError("Invalid MatchSpec")

\* the attribute list after '(': the closing parenthesis, then the oparts
ParseOparts(oparts, self) ==
    LET st == Strip(oparts)
    IN  IF oparts = <<>> THEN MatchSpecOk(self)
        ELSE IF st = <<>> THEN MatchSpecError("IndexError")
        ELSE IF st[Len(st)] # ")" THEN MatchSpecError("Invalid MatchSpec")
        ELSE ApplyOparts(SplitOn(SubSeq(st, 1, Len(st) - 1), ","), self)

\* the regular expression of a build token
BuildRegex(part) ==
    <<"^", "(", "?", ":">> \o ReplaceWith(part, "*", <<".", "*">>) \o <<")", "$">>

\* the version is not exact, or there is a build pattern: self.version, then
\* _match_version for two parts, the compiled build and _match_full for three
MatchSpecBuild(self, parts, vspec) ==
    IF vspec.err # "" THEN MatchSpecError(vspec.err)
    ELSE IF Len(parts) = 2
    THEN MatchSpecOk([self EXCEPT !.version = vspec.vs, !.match_fast = "_match_version"])
    ELSE IF RegexCompile(BuildRegex(parts[3])).err # ""
    THEN MatchSpecError(RegexCompile(BuildRegex(parts[3])).err)
    ELSE MatchSpecOk([self EXCEPT !.version = vspec.vs,
                                  !.build = RegexCompile(BuildRegex(parts[3])).atoms,
                                  !.match_fast = "_match_full"])

\* two or three parts, vspec = _VersionSpec(parts[1])
MatchSpecVersion(self, parts, vspec, normalize) ==
    IF vspec.err # "" THEN MatchSpecError(vspec.err)
    ELSE IF VersionSpecIsExact(vspec.vs) /\ Len(parts) > 2 /\ ~Contains(parts[3], "*")
    THEN MatchSpecOk([self EXCEPT !.version_str = parts[2], !.build_str = parts[3],
                                  !.match_fast = "_match_exact", !.strictness = 3])
    ELSE IF VersionSpecIsExact(vspec.vs) /\ normalize /\ ~EndsWith(parts[2], <<"*">>)
    THEN MatchSpecBuild([self EXCEPT !.spec = Join([parts EXCEPT ![2] = @ \o <<"*">>], <<" ">>)],
                        [parts EXCEPT ![2] = @ \o <<"*">>],
                        VersionSpecNew(parts[2] \o <<"*">>))
    ELSE MatchSpecBuild(self, parts, vspec)

\* the parts of the spec: their number is checked, the name is the first
MatchSpecParts(self, parts, normalize) ==
    IF ~(1 <= Len(parts) /\ Len(parts) <= 3) THEN MatchSpecError("AssertionError")
    ELSE IF Len(parts) = 1
    THEN MatchSpecOk([self EXCEPT !.name = parts[1], !.match_fast = "_match_any",
                                  !.strictness = 1])
    ELSE MatchSpecVersion([self EXCEPT !.name = parts[1], !.strictness = 2], parts,
                          VersionSpecNew(parts[2]), normalize)

\* after the attribute list: self.spec is the stripped text, split into parts
MatchSpecSplit(at, spec, normalize) ==
    IF at.err # "" THEN at
    ELSE MatchSpecParts([at.ms EXCEPT !.spec = spec],
                        IF EndsWith(spec, CONDA_TARBALL_EXTENSION) THEN <<spec>>
                        ELSE SplitWhite(spec),
                        normalize)

\* _MatchSpec.__new__(spec, normalize=normalize) on a string, the target and
\* optional arguments left at Ellipsis
MatchSpecNew(text, normalize) ==
    MatchSpecSplit(ParseOparts(PartitionParen(text).oparts, BareMatchSpec),
                   Strip(PartitionParen(text).spec), normalize)

\* _MatchSpec._match_any
MatchAny(self, version, build) == "T"

\* _MatchSpec._match_version
MatchVersion(self, version, build) == VersionSpecMatch(self.version, version)

\* _MatchSpec._match_exact
MatchExact(self, version, build) == Tri(build = self.build_str /\ self.version_str = version)

\* _MatchSpec._match_full
MatchFull(self, version, build) ==
    IF ~RegexFullMatch(self.build, build) THEN "F" ELSE VersionSpecMatch(self.version, version)

\* self.match_fast(version, build)
MatchFast(self, version, build) ==
    CASE self.match_fast = "_match_any" -> MatchAny(self, version, build)
      [] self.match_fast = "_match_version" -> MatchVersion(self, version, build)
      [] self.match_fast = "_match_exact" -> MatchExact(self, version, build)
      [] self.match_fast = "_match_full" -> MatchFull(self, version, build)

\* a candidate: _Dist(name, version, build_string)
Dist(name, version, build_string) ==
    [name |-> name, version |-> version, build_string |-> build_string]

\* match without its name check
MatchSpecMatchAnyName(self, dist) ==
    [result |-> MatchFast(self, dist.version, dist.build_string), called |-> self.match_fast]

\* _MatchSpec.match(dist): the result, and the predicate called ("" for none)
MatchSpecMatch(self, dist) ==
    IF dist.name # self.name THEN [result |-> "F", called |-> ""]
    ELSE [result |-> MatchFast(self, dist.version, dist.build_string),
          called |-> self.match_fast]

\* _MatchSpec.__str__
MatchSpecStr(self) ==
    LET hasTarget == self.target.set /\ self.target.val # <<>>
        attrs == (IF self.optional THEN << <<"o", "p", "t", "i", "o", "n", "a", "l">> >> ELSE <<>>)
                 \o (IF hasTarget
                     THEN << <<"t", "a", "r", "g", "e", "t", "=">> \o self.target.val >>
                     ELSE <<>>)
    IN  IF self.optional \/ hasTarget
        THEN self.spec \o <<" ", "(">> \o Join(attrs, <<",">>) \o <<")">>
        ELSE self.spec

\* _MatchSpec.is_exact
MatchSpecIsExact(self) == self.match_fast = "_match_exact"

\* _MatchSpec.is_simple
MatchSpecIsSimple(self) == self.match_fast = "_match_any"

-----------------------------------------------------------------------------
(* Ordering scenario: three version strings are parsed, each on its own    *)
(* (no cache hit), and every pair of the results is compared.              *)

\* the largest epoch of the generated version strings
MaxEpoch == 2

\* the versions of the ordering chain documented in the class docstring
ChainVersions ==
    << <<"0", ".", "4">>,
       <<"0", ".", "4", ".", "0">>,
       <<"0", ".", "4", ".", "1", ".", "r", "c">>,
       <<"0", ".", "4", ".", "1", ".", "R", "C">>,
       <<"0", ".", "4", ".", "1">>,
       <<"0", ".", "5", "a", "1">>,
       <<"0", ".", "5", "b", "3">>,
       <<"0", ".", "5", "C", "1">>,
       <<"0", ".", "5", "c", "1">>,
       <<"0", ".", "5">>,
       <<"1", ".", "1", "d", "e", "v", "1">>,
       <<"1", ".", "1", "a", "1">>,
       <<"1", ".", "1", ".", "0", "d", "e", "v", "1">>,
       <<"1", ".", "1", ".", "d", "e", "v", "1">>,
       <<"1", ".", "1", ".", "a", "1">>,
       <<"1", ".", "1", ".", "0", "r", "c", "1">>,
       <<"1", ".", "1", ".", "0">>,
       <<"1", ".", "1">>,
       <<"1", ".", "1", ".", "0", "p", "o", "s", "t", "1">>,
       <<"1", ".", "1", ".", "p", "o", "s", "t", "1">>,
       <<"1", ".", "1", "p", "o", "s", "t", "1">> >>

\* versions with a local part, a '*' run, a dash, an underscore, blanks
ExtraVersions ==
    { <<"1", ".", "1", "+", "1">>,
      <<"1", ".", "1", "+", "0">>,
      <<"1", ".", "0", "+", "9">>,
      <<"1", ".", "1", "+", "d", "e", "v">>,
      <<"1", ".", "1", "+", "1", ".", "p", "o", "s", "t">>,
      <<"1", ".", "1", "*">>,
      <<"1", "-", "1">>,
      <<"1", "_", "r", "c">>,
      <<" ", "1", ".", "1", " ">>,
      <<"3", ".", "1", ".", "1", ".", "6">> }

\* versions with an explicit epoch 0..MaxEpoch
EpochVersions ==
    UNION { { <<Printable[17 + e], "!", "0", ".", "4", ".", "1">>,
              <<Printable[17 + e], "!", "0", "+", "9">> } : e \in 0..MaxEpoch }

OrderVersions == {ChainVersions[i] : i \in 1..Len(ChainVersions)} \cup ExtraVersions \cup EpochVersions

Slots == 1..3

OrderInit ==
    /\ phase = "args"
    /\ args \in OrderVersions \X OrderVersions \X OrderVersions
    /\ objs = <<>>
    /\ rel = [lt |-> <<>>, eq |-> <<>>]
    /\ CacheIdle /\ MatchIdle /\ VSpecIdle /\ FileIdle

\* a = _VersionOrder(args[1]); b = _VersionOrder(args[2]); c = _VersionOrder(args[3])
OrderConstruct ==
    /\ phase = "args"
    /\ objs' = [i \in Slots |-> ParseVersion(args[i])]
    /\ phase' = IF \E i \in Slots : ParseVersion(args[i]).err # "" THEN "raised" ELSE "built"
    /\ UNCHANGED <<args, rel, notOrder>>

\* x < y and x == y for every two of a, b, c
OrderCompare ==
    /\ phase = "built"
    /\ rel' = [lt |-> [i \in Slots |-> [j \in Slots |-> VersionOrder__lt__(objs[i].obj, objs[j].obj)]],
               eq |-> [i \in Slots |-> [j \in Slots |-> VersionOrder__eq__(objs[i].obj, objs[j].obj)]]]
    /\ phase' = "compared"
    /\ UNCHANGED <<args, objs, notOrder>>

OrderNext == OrderConstruct \/ OrderCompare

SpecOrder == OrderInit /\ [][OrderNext]_vars

\* x > y is y < x (__gt__)
RelGt(i, j) == rel.lt[j][i]

\* the epoch the parser finds in a raw version string (its local variable epoch)
EpochOf(raw) == IntOf(FindEpoch(CheckVersion(raw).norm).epoch)

\* a parsed version with its local part dropped
WithoutLocal(obj) == [obj EXCEPT !.local = <<>>]

\* exactly one of the three holds
ExactlyOne(p, q, r) == (p /\ ~q /\ ~r) \/ (~p /\ q /\ ~r) \/ (~p /\ ~q /\ r)

\* C1: for all valid version strings a, b, c, exactly one of a < b, a == b,
\* a > b holds, and a < b and b < c imply a < c.
C1_TotalOrder ==
    phase = "compared" =>
        /\ ExactlyOne(rel.lt[1][2], rel.eq[1][2], RelGt(1, 2))
        /\ (rel.lt[1][2] /\ rel.lt[2][3] => rel.lt[1][3])

\* a state where three different versions have been compared and form a chain
C1_Witness ==
    /\ phase = "compared"
    /\ rel.lt[1][2] /\ rel.lt[2][3] /\ rel.lt[1][3]
    /\ args[1] = <<"1", ".", "1", "d", "e", "v", "1">>
    /\ args[3] = <<"1", "!", "0", "+", "9">>

\* the relation the comparison operators give between slots 1 and 2
Link12 ==
    IF rel.lt[1][2] /\ ~rel.eq[1][2] /\ ~RelGt(1, 2) THEN "<"
    ELSE IF rel.eq[1][2] /\ ~rel.lt[1][2] /\ ~RelGt(1, 2) THEN "=="
    ELSE IF RelGt(1, 2) /\ ~rel.lt[1][2] /\ ~rel.eq[1][2] THEN ">"
    ELSE "none"

\* the links of the chain as the docstring gives them, link i between
\* ChainVersions[i] and ChainVersions[i + 1]
DocumentedLinks ==
    << "<", "<", "==", "<", "<", "<", "<", "==", "<", "<",
       "<", "<", "==", "<", "<", "<", "==", "<", "==", "<" >>

\* the same with 0.4 == 0.4.0
AmendedLinks == [DocumentedLinks EXCEPT ![1] = "=="]

ChainHolds(links) ==
    \A i \in 1..(Len(ChainVersions) - 1) :
        (phase = "compared" /\ args[1] = ChainVersions[i] /\ args[2] = ChainVersions[i + 1])
            => Link12 = links[i]

C4_EpochDominates ==
    phase = "compared" =>
        /\ EpochOf(args[1]) > EpochOf(args[2])
            => (RelGt(1, 2) /\ ~rel.lt[1][2] /\ ~rel.eq[1][2])
        /\ (/\ EpochOf(args[1]) = EpochOf(args[2])
            /\ ~VersionOrder__eq__(WithoutLocal(objs[1].obj), WithoutLocal(objs[2].obj)))
            => /\ rel.lt[1][2] = VersionOrder__lt__(WithoutLocal(objs[1].obj), WithoutLocal(objs[2].obj))
               /\ ~rel.eq[1][2]

\* 1!0+9 has been compared with 3.1.1.6, whose every other component is larger
C4_Witness ==
    /\ phase = "compared"
    /\ args[1] = <<"1", "!", "0", "+", "9">>
    /\ args[2] = <<"3", ".", "1", ".", "1", ".", "6">>
    /\ RelGt(1, 2)

-----------------------------------------------------------------------------
(* The memoization cache: threads run _VersionOrder.__new__ statement by   *)
(* statement on the shared _version_cache.  A step is one statement (or a  *)
(* run of statements touching only locals) followed by the next access to  *)
(* the cache or to an object reachable from it.                            *)

\* calls a single caller makes one after the other
MaxSeqCalls == 2

\* calls each of the concurrent callers makes
MaxConcCalls == 1

Threads == 1..2

\* malformed version strings, one of each kind the parser rejects, and a valid one
SeqInputs ==
    { <<>>,                                     \* empty
      <<"1", ".", "2", "$">>,                   \* invalid character
      <<"1", "!", "2", "!", "3">>,              \* duplicated '!'
      <<"1", "+", "2", "+", "3">>,              \* duplicated '+'
      <<"a", "!", "1">>,                        \* non-integer epoch
      <<"1", ".", ".", "2">>,                   \* empty component
      <<"1", ".", "0", "+", "_">>,              \* empty local component
      <<"1", ".", "0">> }                       \* valid

\* valid version strings for the concurrent callers
ConcInputs == { <<"1", ".", "0">>, <<"1", "a", "+", "b">> }

\* a thread outside any call
IdleThread(n) ==
    [pc |-> "idle", left |-> n, raw |-> <<>>, self |-> 0, norm |-> <<>>, epoch |-> <<>>,
     main |-> <<>>, lst |-> "version", k |-> 0, ret |-> 0, err |-> ""]

CacheInitSeq ==
    /\ pool = SeqInputs
    /\ cache = [r \in SeqInputs |-> 0]
    /\ heap = <<>>
    /\ thr = [t \in Threads |-> IdleThread(IF t = 1 THEN MaxSeqCalls ELSE 0)]
    /\ phase = "threads"
    /\ OrderIdle /\ MatchIdle /\ VSpecIdle /\ FileIdle

CacheInitConc ==
    /\ pool = ConcInputs
    /\ cache = [r \in ConcInputs |-> 0]
    /\ heap = <<>>
    /\ thr = [t \in Threads |-> IdleThread(MaxConcCalls)]
    /\ phase = "threads"
    /\ OrderIdle /\ MatchIdle /\ VSpecIdle /\ FileIdle

\* the caller evaluates _VersionOrder(raw)
VCall(t, raw) ==
    /\ thr[t].pc \in {"idle", "returned", "raised"}
    /\ thr[t].left > 0
    /\ thr' = [thr EXCEPT ![t] = [IdleThread(thr[t].left - 1) EXCEPT !.pc = "get", !.raw = raw]]
    /\ UNCHANGED <<pool, cache, heap, notCache>>

\* self = _version_cache.get(version); if self is not None: return self
VGet(t) ==
    /\ thr[t].pc = "get"
    /\ thr' = [thr EXCEPT ![t] =
                 IF cache[thr[t].raw] # 0
                 THEN [@ EXCEPT !.pc = "returned", !.ret = cache[thr[t].raw]]
                 ELSE [@ EXCEPT !.pc = "alloc"]]
    /\ UNCHANGED <<pool, cache, heap, notCache>>

\* self = _version_cache[version] = object.__new__(cls)
VAlloc(t) ==
    /\ thr[t].pc = "alloc"
    /\ heap' = Append(heap, NewObject)
    /\ cache' = [cache EXCEPT ![thr[t].raw] = Len(heap) + 1]
    /\ thr' = [thr EXCEPT ![t] = [@ EXCEPT !.pc = "fill", !.self = Len(heap) + 1]]
    /\ UNCHANGED <<pool, notCache>>

\* self.fillvalue = 0
VFill(t) ==
    /\ thr[t].pc = "fill"
    /\ heap' = [heap EXCEPT ![thr[t].self] =
                  [@ EXCEPT !.has = @ \cup {"fillvalue"}, !.fillvalue = FillValue]]
    /\ thr' = [thr EXCEPT ![t] = [@ EXCEPT !.pc = "check"]]
    /\ UNCHANGED <<pool, cache, notCache>>

\* normalisation, the validity checks, self.norm_version = version
VCheck(t) ==
    LET chk == CheckVersion(thr[t].raw)
    IN  /\ thr[t].pc = "check"
        /\ IF chk.err # ""
           THEN /\ thr' = [thr EXCEPT ![t] = [@ EXCEPT !.pc = "raised", !.err = chk.err]]
                /\ UNCHANGED heap
           ELSE /\ heap' = [heap EXCEPT ![thr[t].self] =
                              [@ EXCEPT !.has = @ \cup {"norm_version"}, !.norm_version = chk.norm]]
                /\ thr' = [thr EXCEPT ![t] = [@ EXCEPT !.pc = "local", !.norm = chk.norm]]
        /\ UNCHANGED <<pool, cache, notCache>>

\* find epoch; find local version string, self.local = ...
VLocal(t) ==
    LET ep == FindEpoch(thr[t].norm)
        lo == FindLocal(ep.rest)
        err == IF ep.err # "" THEN ep.err ELSE lo.err
    IN  /\ thr[t].pc = "local"
        /\ IF err # ""
           THEN /\ thr' = [thr EXCEPT ![t] = [@ EXCEPT !.pc = "raised", !.err = err]]
                /\ UNCHANGED heap
           ELSE /\ heap' = [heap EXCEPT ![thr[t].self] =
                              [@ EXCEPT !.has = @ \cup {"local"}, !.local = lo.local]]
                /\ thr' = [thr EXCEPT ![t] =
                             [@ EXCEPT !.pc = "version", !.epoch = ep.epoch, !.main = lo.main]]
        /\ UNCHANGED <<pool, cache, notCache>>

\* self.version = epoch + version[0].replace('_', '.').split('.')
VVersion(t) ==
    /\ thr[t].pc = "version"
    /\ heap' = [heap EXCEPT ![thr[t].self] =
                  [@ EXCEPT !.has = @ \cup {"version"},
                            !.version = SplitVersion(thr[t].epoch, thr[t].main)]]
    /\ thr' = [thr EXCEPT ![t] = [@ EXCEPT !.pc = "split", !.lst = "version", !.k = 1]]
    /\ UNCHANGED <<pool, cache, notCache>>

\* one iteration of the splitting loop: component k of self.version or self.local
VSplit(t) ==
    LET self == heap[thr[t].self]
        v == IF thr[t].lst = "version" THEN self.version ELSE self.local
        r == SplitComponent(v[thr[t].k].raw, self.fillvalue)
        v2 == [v EXCEPT ![thr[t].k] = r.comp]
        more == thr[t].k < Len(v)
        toLocal == ~more /\ thr[t].lst = "version" /\ self.local # <<>>
    IN  /\ thr[t].pc = "split"
        /\ IF r.err # ""
           THEN /\ thr' = [thr EXCEPT ![t] = [@ EXCEPT !.pc = "raised", !.err = r.err]]
                /\ UNCHANGED heap
           ELSE /\ heap' = [heap EXCEPT ![thr[t].self] =
                              IF thr[t].lst = "version" THEN [@ EXCEPT !.version = v2]
                              ELSE [@ EXCEPT !.local = v2]]
                /\ thr' = [thr EXCEPT ![t] =
                             IF more THEN [@ EXCEPT !.k = @ + 1]
                             ELSE IF toLocal THEN [@ EXCEPT !.lst = "local", !.k = 1]
                             ELSE [@ EXCEPT !.pc = "return"]]
        /\ UNCHANGED <<pool, cache, notCache>>

\* return self
VReturn(t) ==
    /\ thr[t].pc = "return"
    /\ thr' = [thr EXCEPT ![t] = [@ EXCEPT !.pc = "returned", !.ret = thr[t].self]]
    /\ UNCHANGED <<pool, cache, heap, notCache>>

CacheNext ==
    \E t \in Threads :
        \/ \E raw \in pool : VCall(t, raw)
        \/ VGet(t)
        \/ VAlloc(t)
        \/ VFill(t)
        \/ VCheck(t)
        \/ VLocal(t)
        \/ VVersion(t)
        \/ VSplit(t)
        \/ VReturn(t)

SpecCacheSeq == CacheInitSeq /\ [][CacheNext]_vars

SpecCacheConc == CacheInitConc /\ [][CacheNext]_vars

\* the string is one the parser rejects when it parses it
Malformed(raw) == ParseVersion(raw).err # ""

\* C5 as stated: when two threads call _VersionOrder(raw) concurrently with an
\* initially empty cache, each caller obtains a fully parsed value equal to
\* the sequential parse result, never an object whose norm_version, version
\* or local is missing or partly built.
C5_ConcurrentCallersGetParsedValue ==
    \A t \in Threads :
        thr[t].pc = "returned" => heap[thr[t].ret] = ParseVersion(thr[t].raw).obj

\* C6 as stated: parsing a malformed version string fails on the first call
\* and on every later call with the same raw string; no call returns a
\* cached value for it.
C6_MalformedAlwaysRaises ==
    \A t \in Threads :
        /\ thr[t].pc = "returned" => ~Malformed(thr[t].raw)
        /\ thr[t].pc = "raised" => thr[t].err = ParseVersion(thr[t].raw).err

-----------------------------------------------------------------------------
(* Matching scenario: a spec text is compiled, matched against a           *)
(* candidate, serialized, and the serialization compiled and matched again.*)

\* the spec texts: each tier, each listed violation, attribute lists
MatchTexts ==
    { <<"n", "u", "m", "p", "y">>,  \* name only
      <<"n", ".", "t", "a", "r", ".", "b", "z", "2">>,  \* a package archive name
      <<"n", "u", "m", "p", "y", " ", "1", ".", "7">>,  \* exact version
      <<"n", "u", "m", "p", "y", " ", "1", ".", "7", "*">>,  \* prefix
      <<"n", "u", "m", "p", "y", " ", ">", "=", "1", ".", "7", ",", "<", "2">>,  \* relational clauses
      <<"n", "u", "m", "p", "y", " ", "^", "1", ".", "7", "$">>,  \* regex
      <<"n", "u", "m", "p", "y", " ", "1", ".", "7", " ", "p", "y", "2", "7", "_", "0">>,  \* exact version and build
      <<"n", "u", "m", "p", "y", " ", "1", ".", "7", "*", " ", "p", "y", "2", "7", "_", "0">>,  \* general path, literal build
      <<"n", "u", "m", "p", "y", " ", "1", ".", "7", " ", "p", "y", "*">>,  \* general path, build glob
      <<"n", "u", "m", "p", "y", " ", "1", ".", "7", "*", " ", "p", "y", ".", "7", "_", "0">>,  \* general path, '.' in the build
      <<"n", "u", "m", "p", "y", " ", ">", "=", " ", "1", ".", "7">>,  \* blank after the operator
      <<"n", "u", "m", "p", "y", " ", "<", ">", "1", ".", "7">>,  \* unknown operator
      <<"n", "u", "m", "p", "y", " ", "<", "=", "!", "1", ".", "7">>,  \* nonsensical operator
      <<"n", "u", "m", "p", "y", " ", "(", "f", "o", "o", ")">>,  \* unknown attribute
      <<"n", "u", "m", "p", "y", " ", "(", "o", "p", "t", "i", "o", "n", "a", "l">>,  \* no closing parenthesis
      <<"n", "u", "m", "p", "y", " ", "1", " ", "2", " ", "3">>,  \* four tokens
      <<>>,  \* no token
      <<"n", "u", "m", "p", "y", " ", "^", "1", ".", "7">>,  \* regex segment without '$'
      <<"n", "u", "m", "p", "y", " ", "1", ".", "7", " ", "(", "o", "p", "t", "i", "o", "n", "a", "l", ",", "t", "a", "r", "g", "e", "t", "=", "a", "b", "c", ")">>,  \* both attributes
      <<"n", "u", "m", "p", "y", " ", "1", ".", "7", " ", "(", "t", "a", "r", "g", "e", "t", "=", "a", "b", "c", ",", "o", "p", "t", "i", "o", "n", "a", "l", ")">>,  \* both attributes, other order
      <<"n", "u", "m", "p", "y", " ", "(", "t", "a", "r", "g", "e", "t", "=", "a", "b", "c", ")">>,  \* target only
      <<"n", "u", "m", "p", "y", " ", "1", ".", "7", " ", "(", "o", "p", "t", "i", "o", "n", "a", "l", ")">>,  \* optional only
      <<"n", "u", "m", "p", "y", " ", "(", "t", "a", "r", "g", "e", "t", "=", "a", "=", "b", ")">>,  \* '=' in the target
      <<"n", "u", "m", "p", "y", " ", "(", "t", "a", "r", "g", "e", "t", "=", ")">> }  \* empty target

Candidates ==
    { Dist(<<"n", "u", "m", "p", "y">>,
           <<"1", ".", "7">>, <<"p", "y", "2", "7", "_", "0">>),
      Dist(<<"n", "u", "m", "p", "y">>,
           <<"1", ".", "7", ".", "1">>, <<"x">>),
      Dist(<<"n", "u", "m", "p", "y">>,
           <<"1", ".", "8", ".", "0">>, <<"x">>),
      Dist(<<"n", "u", "m", "p", "y">>,
           <<"1", ".", "9">>, <<"p", "y", "2", "7", "_", "0">>),
      Dist(<<"n", "u", "m", "p", "y">>,
           <<"2", ".", "0">>, <<"x">>),
      Dist(<<"n", "u", "m", "p", "y">>,
           <<"1", ".", "6">>, <<"x">>),
      Dist(<<"s", "c", "i", "p", "y">>,
           <<"1", ".", "7">>, <<"p", "y", "2", "7", "_", "0">>),
      Dist(<<"n", "u", "m", "p", "y">>,
           <<"1", ".", "7">>, <<"p", "y", "x", "7", "_", "0">>),
      Dist(<<"n", "u", "m", "p", "y">>,
           <<"1", ".", "7">>, <<"p", "y", "2", "7", "_", "1">>),
      Dist(<<"s", "c", "i", "p", "y">>,
           <<"1", ".", ".", "2">>, <<"x">>),
      Dist(<<"n", "u", "m", "p", "y">>,
           <<"1", ".", ".", "2">>, <<"x">>) }

NoMatchResult == [result |-> "", called |-> ""]

NoMatchOut == [match |-> NoMatchResult, str |-> <<>>, re |-> MatchSpecError(""), rematch |-> NoMatchResult]

MatchInit ==
    /\ phase = "text"
    /\ mtext \in MatchTexts
    /\ cand \in Candidates
    /\ mspec = MatchSpecError("")
    /\ mout = NoMatchOut
    /\ OrderIdle /\ CacheIdle /\ VSpecIdle /\ FileIdle

\* spec = _MatchSpec(mtext)
MatchCompile ==
    /\ phase = "text"
    /\ mspec' = MatchSpecNew(mtext, FALSE)
    /\ phase' = IF MatchSpecNew(mtext, FALSE).err # "" THEN "raised" ELSE "compiled"
    /\ UNCHANGED <<mtext, cand, mout, notMatch>>

\* spec.match(cand)
MatchCandidate ==
    /\ phase = "compiled"
    /\ mout' = [mout EXCEPT !.match = MatchSpecMatch(mspec.ms, cand)]
    /\ phase' = "matched"
    /\ UNCHANGED <<mtext, cand, mspec, notMatch>>

\* again = _MatchSpec(str(spec)); again.match(cand)
MatchReparse ==
    LET text == MatchSpecStr(mspec.ms)
        again == MatchSpecNew(text, FALSE)
    IN  /\ phase = "matched"
        /\ mout' = [mout EXCEPT !.str = text, !.re = again,
                                !.rematch = IF again.err # "" THEN [result |-> "E", called |-> ""]
                                            ELSE MatchSpecMatch(again.ms, cand)]
        /\ phase' = "reparsed"
        /\ UNCHANGED <<mtext, cand, mspec, notMatch>>

MatchNext == MatchCompile \/ MatchCandidate \/ MatchReparse

SpecMatch == MatchInit /\ [][MatchNext]_vars

\* the whitespace-separated tokens of a spec text, its attribute list left out
SpecTokens(text) == SplitWhite(PartitionParen(text).spec)

\* a version token with none of the grammar's special characters
IsLiteralVersion(tok) ==
    /\ tok # <<>>
    /\ CharsOf(tok) \cap {"|", ",", "*", "^", "$"} = {}
    /\ tok[1] \notin {"=", "<", ">", "!"}

\* C3: match returns false whenever the candidate's name differs from the
\* spec's, without evaluating a version or build predicate; otherwise a
\* 1-token spec matches every version and build, a 2-token spec matches iff
\* its VersionSpec matches the candidate's version, and a 3-token spec with a
\* literal version and a literal build matches only the exact triple.
C3_MatchByTier ==
    phase \in {"matched", "reparsed"} =>
        LET toks == SpecTokens(mtext)
            r == mout.match
        IN  /\ cand.name # toks[1] => r = [result |-> "F", called |-> ""]
            /\ cand.name = toks[1] =>
                /\ Len(toks) = 1 => r.result = "T"
                /\ Len(toks) = 2 =>
                      r.result = VersionSpecMatch(VersionSpecNew(toks[2]).vs, cand.version)
                /\ (Len(toks) = 3 /\ IsLiteralVersion(toks[2]) /\ ~Contains(toks[3], "*")) =>
                      /\ r.result \in {"T", "F"}
                      /\ r.result = "T" <=> (cand.version = toks[2] /\ cand.build_string = toks[3])

\* "numpy 1.7 py27_0" has matched the exact triple
C3_Witness ==
    /\ phase = "matched"
    /\ mtext = <<"n", "u", "m", "p", "y", " ", "1", ".", "7", " ", "p", "y", "2", "7", "_", "0">>
    /\ cand = Dist(<<"n", "u", "m", "p", "y">>, <<"1", ".", "7">>, <<"p", "y", "2", "7", "_", "0">>)
    /\ mout.match.result = "T"

\* the attribute tokens written in a spec text
WrittenAttrs(text) ==
    LET st == Strip(PartitionParen(text).oparts)
    IN  IF st = <<>> THEN <<>> ELSE SplitOn(SubSeq(st, 1, Len(st) - 1), ",")

IsOptionalAttr(a) == a = <<"o", "p", "t", "i", "o", "n", "a", "l">>
IsTargetAttr(a) == StartsWith(a, <<"t", "a", "r", "g", "e", "t", "=">>)

\* the version token is a relational operator not immediately followed by
\* exactly one version token
BadRelational(tok) ==
    /\ tok # <<>>
    /\ tok[1] \in {"=", "<", ">", "!"}
    /\ ~\E op \in RelationOps :
          /\ StartsWith(tok, op)
          /\ Len(tok) > Len(op)
          /\ tok[Len(op) + 1] \notin {"=", "<", ">", "!"}

\* the attribute list has an unknown token or no closing parenthesis
BadAttributeList(text) ==
    LET st == Strip(PartitionParen(text).oparts)
        attrs == WrittenAttrs(text)
    IN  /\ Contains(text, "(")
        /\ \/ st = <<>>
           \/ st[Len(st)] # ")"
           \/ \E i \in 1..Len(attrs) : ~IsOptionalAttr(attrs[i]) /\ ~IsTargetAttr(attrs[i])

\* the version token is a regex segment that starts with '^' and has no '$'
UnterminatedRegex(tok) == tok # <<>> /\ tok[1] = "^" /\ ~Contains(tok, "$")

\* one of the violations the claim lists
ListedViolation(text) ==
    LET toks == SpecTokens(text)
    IN  \/ BadAttributeList(text)
        \/ Len(toks) < 1 \/ Len(toks) > 3
        \/ Len(toks) >= 2 /\ (BadRelational(toks[2]) \/ UnterminatedRegex(toks[2]))

\* C7 as stated: compiling a spec fails, and yields no matcher, for a
\* relational operator not immediately followed by exactly one version
\* token, an attribute list with an unknown token or no closing parenthesis,
\* a token count outside 1..3, and a regex segment that starts with '^' but
\* has no terminating '$'.
C7_ListedViolationsRaise ==
    (phase # "text" /\ ListedViolation(mtext)) => (phase = "raised" /\ mspec.err # "")

\* the same without the unterminated regex segment; this much the code does
C7_OtherViolationsRaise ==
    (phase # "text" /\ ListedViolation(mtext)
        /\ ~(Len(SpecTokens(mtext)) >= 2 /\ UnterminatedRegex(SpecTokens(mtext)[2])))
        => (phase = "raised" /\ mspec.err # "")

\* optional as written in the attribute list
WrittenOptional(text) ==
    \E i \in 1..Len(WrittenAttrs(text)) : IsOptionalAttr(WrittenAttrs(text)[i])

\* target as written in the attribute list: the text after 'target='
WrittenTarget(text) ==
    LET attrs == WrittenAttrs(text)
        ts == {i \in 1..Len(attrs) : IsTargetAttr(attrs[i])}
        last == CHOOSE i \in ts : \A j \in ts : j <= i
    IN  IF ts = {} THEN NoTarget ELSE Target(Strip(From(attrs[last], 7)))

\* C10 as stated: for every spec text with an attribute list, the compiled
\* _MatchSpec has optional and target set as written, and compiling
\* str(spec) again gives a _MatchSpec with the same name, optional flag,
\* target and match result on every candidate.
C10_AttributeRoundTrip ==
    (phase = "reparsed" /\ Contains(mtext, "(")) =>
        /\ mspec.ms.optional = WrittenOptional(mtext)
        /\ mspec.ms.target = WrittenTarget(mtext)
        /\ mout.re.err = ""
        /\ mout.re.ms.name = mspec.ms.name
        /\ mout.re.ms.optional = mspec.ms.optional
        /\ mout.re.ms.target = mspec.ms.target
        /\ mout.rematch.result = mout.match.result

-----------------------------------------------------------------------------
(* Combinator scenario: three version specs are compiled from text, joined *)
(* with & and |, matched against a version, serialized with str, and the   *)
(* serialization compiled and matched again.                               *)

\* spec texts: relations, exact versions, a prefix, a conjunction
SpecTexts ==
    { <<">", "=", "1", ".", "7">>,
      <<"<", "2">>,
      <<"1", ".", "0">>,
      <<"2", ".", "0">>,
      <<"3", ".", "0">>,
      <<"1", ".", "7", "*">>,
      <<">", "=", "1", ".", "7", ",", "<", "2">> }

\* the version strings the specs are matched against
MatchVersions ==
    { <<"1", ".", "0">>,
      <<"1", ".", "7">>,
      <<"1", ".", "8">>,
      <<"2", ".", "0">>,
      <<"3", ".", "0">> }

\* the ways the compiled specs a, b, c are joined
Shapes == {"a&b", "a|b", "a&(b|c)", "a|(b&c)", "(a|b)&c"}

NoSpecOut == [shape |-> "", match |-> "", str |-> <<>>, re |-> SpecError(""), rematch |-> ""]

VSpecInit ==
    /\ phase = "specs"
    /\ vin \in [a : SpecTexts, b : SpecTexts, c : SpecTexts, v : MatchVersions]
    /\ vobj = [a |-> BareSpec, b |-> BareSpec, c |-> BareSpec, s |-> BareSpec]
    /\ vout = NoSpecOut
    /\ OrderIdle /\ CacheIdle /\ MatchIdle /\ FileIdle

\* a, b, c = _VersionSpec(text) for each text
SpecCompile ==
    /\ phase = "specs"
    /\ VersionSpecNew(vin.a).err = "" /\ VersionSpecNew(vin.b).err = "" /\ VersionSpecNew(vin.c).err = ""
    /\ vobj' = [vobj EXCEPT !.a = VersionSpecNew(vin.a).vs, !.b = VersionSpecNew(vin.b).vs,
                            !.c = VersionSpecNew(vin.c).vs]
    /\ phase' = "compiled"
    /\ UNCHANGED <<vin, vout, notVSpec>>

\* s = a & b, a | b, a & (b | c), a | (b & c) or (a | b) & c
SpecCombine(shape) ==
    LET a == vobj.a
        b == vobj.b
        c == vobj.c
        joined == CASE shape = "a&b" -> VersionSpec__and__(a, b)
                    [] shape = "a|b" -> VersionSpec__or__(a, b)
                    [] shape = "a&(b|c)" -> VersionSpec__and__(a, VersionSpec__or__(b, c))
                    [] shape = "a|(b&c)" -> VersionSpec__or__(a, VersionSpec__and__(b, c))
                    [] shape = "(a|b)&c" -> VersionSpec__and__(VersionSpec__or__(a, b), c)
    IN  /\ phase = "compiled"
        /\ vobj' = [vobj EXCEPT !.s = joined]
        /\ vout' = [vout EXCEPT !.shape = shape]
        /\ phase' = "combined"
        /\ UNCHANGED <<vin, notVSpec>>

\* s.match(v)
SpecMatchVersion ==
    /\ phase = "combined"
    /\ vout' = [vout EXCEPT !.match = VersionSpecMatch(vobj.s, vin.v)]
    /\ phase' = "matched"
    /\ UNCHANGED <<vin, vobj, notVSpec>>

\* again = _VersionSpec(str(s)); again.match(v)
SpecReparse ==
    LET text == VersionSpecStr(vobj.s, FALSE)
        again == VersionSpecNew(text)
    IN  /\ phase = "matched"
        /\ vout' = [vout EXCEPT !.str = text, !.re = again,
                                !.rematch = IF again.err # "" THEN "E"
                                            ELSE VersionSpecMatch(again.vs, vin.v)]
        /\ phase' = "reparsed"
        /\ UNCHANGED <<vin, vobj, notVSpec>>

VSpecNext ==
    \/ SpecCompile
    \/ \E shape \in Shapes : SpecCombine(shape)
    \/ SpecMatchVersion
    \/ SpecReparse

SpecVSpec == VSpecInit /\ [][VSpecNext]_vars

\* C8 as stated: (a & b).match(v) is true iff a.match(v) and b.match(v)
\* are both true, and (a | b).match(v) is true iff at least one of them is.
C8_CombinatorsKeepMeaning ==
    phase \in {"matched", "reparsed"} =>
        LET ma == VersionSpecMatch(vobj.a, vin.v) = "T"
            mb == VersionSpecMatch(vobj.b, vin.v) = "T"
        IN  /\ vout.shape = "a&b" => (vout.match = "T" <=> (ma /\ mb))
            /\ vout.shape = "a|b" => (vout.match = "T" <=> (ma \/ mb))

\* C9 as stated: compiling str(s) gives a _VersionSpec that matches the
\* same version strings as s, also for trees with an Or inside an And.
C9_StrRoundTrips ==
    phase = "reparsed" => (vout.re.err = "" /\ vout.rematch = vout.match)

-----------------------------------------------------------------------------
(* Evaluation scenario: conda_match_eval on a raw constraint and a package *)

\* the characters of a relational operator
OperatorChars == {">", "<", "=", "!"}

\* re.sub('[><=!]+', ' \g<0>', spec): a space put before every maximal run
\* of operator characters
re_sub(spec) ==
    Join([i \in 1..Len(spec) |->
             IF spec[i] \in OperatorChars /\ (i = 1 \/ spec[i - 1] \notin OperatorChars)
             THEN <<" ", spec[i]>> ELSE <<spec[i]>>],
         <<>>)

\* raw constraints: a bare name, one clause, joined clauses
RawConstraints ==
    { <<"n", "u", "m", "p", "y">>,
      <<"n", "u", "m", "p", "y", ">", "=", "1", ".", "7">>,
      <<"n", "u", "m", "p", "y", "=", "=", "1", ".", "7">>,
      <<"n", "u", "m", "p", "y", "!", "=", "1", ".", "7">>,
      <<"n", "u", "m", "p", "y", "<", "2">>,
      <<"n", "u", "m", "p", "y", ">", "=", "1", ".", "7", ",", "<", "2">>,
      <<"n", "u", "m", "p", "y", ">", "=", "1", ".", "7", "|", "<", "1">>,
      <<"n", "u", "m", "p", "y", ">", "=", "1", ".", "7", ",", "<", "2", ",", "!", "=", "1", ".", "8">>,
      <<"s", "c", "i", "p", "y", ">", "=", "1">>,
      <<"n", "u", "m", "p", "y", " ", ">", "=", "1", ".", "7">>,
      <<"n", "u", "m", "p", "y", "<", ">", "1", ".", "7">> }

EvalInit ==
    /\ phase = "raw"
    /\ mtext \in RawConstraints
    /\ cand \in Candidates
    /\ mspec = MatchSpecError("")
    /\ mout = NoMatchOut
    /\ OrderIdle /\ CacheIdle /\ VSpecIdle /\ FileIdle

\* spec = re.sub(u'[><=!]+', u' \g<0>', spec)
EvalSub ==
    /\ phase = "raw"
    /\ mout' = [mout EXCEPT !.str = re_sub(mtext)]
    /\ phase' = "spaced"
    /\ UNCHANGED <<mtext, cand, mspec, notMatch>>

\* _MatchSpec(spec)
EvalCompile ==
    /\ phase = "spaced"
    /\ mspec' = MatchSpecNew(mout.str, FALSE)
    /\ phase' = IF MatchSpecNew(mout.str, FALSE).err # "" THEN "raised" ELSE "compiled"
    /\ UNCHANGED <<mtext, cand, mout, notMatch>>

\* return _MatchSpec(spec).match(_Dist(**pkg_dict))
EvalMatch ==
    /\ phase = "compiled"
    /\ mout' = [mout EXCEPT !.match = MatchSpecMatch(mspec.ms, cand)]
    /\ phase' = "evaluated"
    /\ UNCHANGED <<mtext, cand, mspec, notMatch>>

EvalNext == EvalSub \/ EvalCompile \/ EvalMatch

SpecEval == EvalInit /\ [][EvalNext]_vars

\* the spaced form of a raw constraint: one space between the name and the
\* first relational operator
SpacedForm(raw) ==
    LET ops == {i \in 1..Len(raw) : raw[i] \in OperatorChars}
        first == CHOOSE i \in ops : \A j \in ops : i <= j
    IN  IF ops = {} THEN raw ELSE SubSeq(raw, 1, first - 1) \o <<" ">> \o SubSeq(raw, first, Len(raw))

\* C11 as stated: for a raw constraint written without spaces, also a
\* comma-joined one, conda_match_eval(raw, pkg) returns what _MatchSpec on
\* the spaced form returns for the same candidate (and raises where that
\* raises).
C11_EvalEqualsSpacedForm ==
    (phase \in {"evaluated", "raised"} /\ ~Contains(mtext, " ")) =>
        LET ref == MatchSpecNew(SpacedForm(mtext), FALSE)
        IN  IF ref.err # "" THEN phase = "raised"
            ELSE /\ phase = "evaluated"
                 /\ mout.match.result = MatchSpecMatch(ref.ms, cand).result

\* the same for constraints of one clause; this much the code does
C11_OneClauseEqualsSpacedForm ==
    (phase \in {"evaluated", "raised"} /\ ~Contains(mtext, " ")
        /\ ~Contains(mtext, ",") /\ ~Contains(mtext, "|")) =>
        LET ref == MatchSpecNew(SpacedForm(mtext), FALSE)
        IN  IF ref.err # "" THEN phase = "raised"
            ELSE /\ phase = "evaluated"
                 /\ mout.match.result = MatchSpecMatch(ref.ms, cand).result

-----------------------------------------------------------------------------
(* The 'dev' and 'post' runs in the ordering scenario                      *)

\* the (c1, c2) pairs __lt__ visits for the versions in slots i and j
SlotPairs(i, j) ==
    TokenPairs(Toks(objs[i].obj.version), Toks(objs[j].obj.version), objs[i].obj.fillvalue)
    \o TokenPairs(Toks(objs[i].obj.local), Toks(objs[j].obj.local), objs[i].obj.fillvalue)

\* the first pair with c1 != c2; <<c, c>> when the versions are equal
FirstDifference(i, j) ==
    LET ps == SlotPairs(i, j)
        ds == {k \in 1..Len(ps) : ps[k][1] # ps[k][2]}
    IN  IF ds = {} THEN <<InfTok, InfTok>> ELSE ps[CHOOSE k \in ds : \A l \in ds : k <= l]

DevTok == StrTok(<<"D", "E", "V">>)

\* C12 as stated: where two versions first differ, a token parsed from
\* 'dev' makes its version the smaller one whatever the other token is (an
\* integer or another string run, also a run of '*'), and a token parsed
\* from 'post' makes its version the greater one.
C12_DevMinimalPostMaximal ==
    phase = "compared" =>
        LET d == FirstDifference(1, 2)
        IN  /\ (d[1] # d[2] /\ d[1] = DevTok) => rel.lt[1][2]
            /\ (d[1] # d[2] /\ d[1] = InfTok) => RelGt(1, 2)

\* the same with the runs of '*' left out; this much the code does
C12_ExceptStarRuns ==
    phase = "compared" =>
        LET d == FirstDifference(1, 2)
        IN  /\ (d[1] # d[2] /\ d[1] = DevTok /\ ~(IsStr(d[2]) /\ Contains(d[2].s, "*")))
                  => rel.lt[1][2]
            /\ (d[1] # d[2] /\ d[1] = InfTok) => RelGt(1, 2)

-----------------------------------------------------------------------------
(* The build pattern in the matching scenario                              *)

\* an anchored glob: '*' stands for any run of characters, every other
\* character for itself
RECURSIVE GlobMatch(_, _)
GlobMatch(glob, s) ==
    IF glob = <<>> THEN s = <<>>
    ELSE IF Head(glob) = "*"
    THEN GlobMatch(Tail(glob), s) \/ (s # <<>> /\ GlobMatch(glob, Tail(s)))
    ELSE s # <<>> /\ Head(s) = Head(glob) /\ GlobMatch(Tail(glob), Tail(s))

\* C15 as stated: a 3-token spec on the general path has strictness 2, and
\* it matches iff its build token, read as an anchored glob in which '.'
\* is a literal '.' and '*' any run of characters, matches the whole build
\* string of the candidate and its VersionSpec matches the version.
C15_BuildIsAnchoredGlob ==
    (phase \in {"matched", "reparsed"} /\ mspec.ms.match_fast = "_match_full"
        /\ cand.name = mspec.ms.name) =>
        /\ mspec.ms.strictness = 2
        /\ mout.match.result = "T" <=>
              /\ GlobMatch(SpecTokens(mtext)[3], cand.build_string)
              /\ VersionSpecMatch(mspec.ms.version, cand.version) = "T"

\* the same for build tokens without '.'; this much the code does
C15_GlobWithoutDot ==
    (phase \in {"matched", "reparsed"} /\ mspec.ms.match_fast = "_match_full"
        /\ cand.name = mspec.ms.name /\ ~Contains(SpecTokens(mtext)[3], ".")) =>
        /\ mspec.ms.strictness = 2
        /\ mout.match.result = "T" <=>
              /\ GlobMatch(SpecTokens(mtext)[3], cand.build_string)
              /\ VersionSpecMatch(mspec.ms.version, cand.version) = "T"

-----------------------------------------------------------------------------
(* atomic_symlink: several callers replace the same dest.  Each system     *)
(* call is one step; the states between the steps are what another         *)
(* process can observe.                                                    *)

MaxLinkers == 2

\* the concurrent callers of atomic_symlink(source, dest)
Linkers == 1..MaxLinkers

\* the i of the temporary names dest-<i> the callers can reach
TempIndex == 0..MaxLinkers

\* the source of caller c, and the target dest has before the calls
SourceOf(c) == <<"new", c>>
OldTarget == <<"old", 0>>

\* directory entries; by is the caller that created a link (0: none of them)
Absent == [kind |-> "absent", target |-> <<>>, by |-> 0]
Directory == [kind |-> "dir", target |-> <<>>, by |-> 0]
Symlink(target, c) == [kind |-> "link", target |-> target, by |-> c]

LinkInit ==
    /\ phase = "files"
    /\ \E parent \in BOOLEAN, old \in {Absent, Directory, Symlink(OldTarget, 0)},
          other \in {Absent, Symlink(OldTarget, 0)} :
          /\ ~parent => (old = Absent /\ other = Absent)
          /\ fs = [parent |-> parent, old |-> old, dest |-> old,
                   temp |-> [i \in TempIndex |-> IF i = 0 THEN other ELSE Absent]]
    /\ lk = [c \in Linkers |-> [pc |-> "symlink", i |-> 0, templink |-> 0]]
    /\ rm = <<>>
    /\ OrderIdle /\ CacheIdle /\ MatchIdle /\ VSpecIdle

\* os.symlink that replaces an existing entry instead of failing with EEXIST
SymlinkErrnoNoExcl(dir, i) == IF ~dir.parent THEN "ENOENT" ELSE ""

\* the errno of os.symlink(source, dest + '-%d' % i), "" when it succeeds
SymlinkErrno(dir, i) ==
    IF ~dir.parent THEN "ENOENT" ELSE IF dir.temp[i].kind # "absent" THEN "EEXIST" ELSE ""

\* one pass of the while loop: templink = dest + '-%d' % i; os.symlink(source, templink)
LinkSymlink(c) ==
    /\ lk[c].pc = "symlink"
    /\ IF SymlinkErrno(fs, lk[c].i) = "EEXIST"
       THEN /\ lk' = [lk EXCEPT ![c].templink = lk[c].i, ![c].i = @ + 1]
            /\ fs' = fs
       ELSE IF SymlinkErrno(fs, lk[c].i) # ""
       THEN /\ lk' = [lk EXCEPT ![c].templink = lk[c].i, ![c].pc = "raised"]
            /\ fs' = fs
       ELSE /\ lk' = [lk EXCEPT ![c].templink = lk[c].i, ![c].pc = "rename"]
            /\ fs' = [fs EXCEPT !.temp[lk[c].i] = Symlink(SourceOf(c), c)]
    /\ UNCHANGED <<rm, notFile>>

\* os.rename(templink, dest): replaces dest in one step; fails on a directory
LinkRename(c) ==
    /\ lk[c].pc = "rename"
    /\ IF fs.dest.kind = "dir"
       THEN /\ lk' = [lk EXCEPT ![c].pc = "unlink"]
            /\ fs' = fs
       ELSE /\ lk' = [lk EXCEPT ![c].pc = "returned"]
            /\ fs' = [fs EXCEPT !.dest = fs.temp[lk[c].templink],
                                !.temp[lk[c].templink] = Absent]
    /\ UNCHANGED <<rm, notFile>>

\* except: os.unlink(templink); raise
LinkUnlink(c) ==
    /\ lk[c].pc = "unlink"
    /\ fs.temp[lk[c].templink].kind # "absent"
    /\ fs' = [fs EXCEPT !.temp[lk[c].templink] = Absent]
    /\ lk' = [lk EXCEPT ![c].pc = "raised"]
    /\ UNCHANGED <<rm, notFile>>

LinkNext == \E c \in Linkers : LinkSymlink(c) \/ LinkRename(c) \/ LinkUnlink(c)

SpecLink == LinkInit /\ [][LinkNext]_vars

\* caller c has created its temporary link and not yet renamed or removed it
HoldsTemp(c) == lk[c].pc \in {"rename", "unlink"}

\* C13: a dest that exists as a symlink is never absent and always points
\* to its old target or to the source of one of the calls; no two
\* concurrent calls hold the same temporary link name; and once every call
\* has returned or raised, no temporary link dest-<i> created by them is
\* left.
C13_AtomicReplace ==
    /\ fs.old.kind = "link" =>
          /\ fs.dest.kind = "link"
          /\ fs.dest.target \in {OldTarget} \cup {SourceOf(c) : c \in Linkers}
    /\ \A c, d \in Linkers :
          (c # d /\ HoldsTemp(c) /\ HoldsTemp(d)) => lk[c].templink # lk[d].templink
    /\ (\A c \in Linkers : lk[c].pc \in {"returned", "raised"}) =>
          \A i \in TempIndex : fs.temp[i].by \notin Linkers

\* every call has returned, dest was a symlink and now points to a new
\* source, and a caller found dest-0 taken and went on to another name
C13_Witness ==
    /\ \A c \in Linkers : lk[c].pc = "returned"
    /\ fs.old.kind = "link"
    /\ fs.dest.by \in Linkers
    /\ \E c \in Linkers : lk[c].templink > 0

-----------------------------------------------------------------------------
(* robust_rmtree: each call of shutil.rmtree succeeds, fails with OSError  *)
(* or fails with another exception, as the file system decides.            *)

MaxRetries == 6

\* what one call of shutil.rmtree(path) can do
RmtreeOutcomes == {"ok", "OSError", "Exception"}

RmtreeInit ==
    /\ phase = "files"
    /\ \E n \in 0..MaxRetries, logger \in BOOLEAN :
          rm = [max_retries |-> n, logger |-> logger, pc |-> "loop", i |-> 0, dt |-> 1,
                tried |-> <<>>, slept |-> <<>>, logged |-> 0, error |-> ""]
    /\ fs = <<>>
    /\ lk = <<>>
    /\ OrderIdle /\ CacheIdle /\ MatchIdle /\ VSpecIdle

\* a delay that stays the same from one retry to the next
NextDelaySame(dt) == dt

\* dt *= 2
NextDelay(dt) == dt * 2

\* one pass of the for loop up to its sleep: shutil.rmtree(path); return,
\* or the two log lines on OSError
RmtreeTry(outcome) ==
    /\ rm.pc = "loop"
    /\ rm.i < rm.max_retries
    /\ rm' = [rm EXCEPT !.tried = Append(@, outcome),
                        !.pc = CASE outcome = "ok" -> "returned"
                                 [] outcome = "OSError" -> "sleep"
                                 [] OTHER -> "raised",
                        !.logged = IF outcome = "OSError" /\ rm.logger THEN @ + 2 ELSE @,
                        !.error = IF outcome = "Exception" THEN outcome ELSE @]
    /\ UNCHANGED <<fs, lk, notFile>>

\* time.sleep(dt); dt *= 2, and the loop goes on to its next i
RmtreeSleep ==
    /\ rm.pc = "sleep"
    /\ rm' = [rm EXCEPT !.slept = Append(@, rm.dt), !.dt = NextDelay(@), !.i = @ + 1,
                        !.pc = "loop"]
    /\ UNCHANGED <<fs, lk, notFile>>

\* after the loop: shutil.rmtree(path), any exception passed to the caller
RmtreeFinal(outcome) ==
    /\ rm.pc = "loop"
    /\ rm.i >= rm.max_retries
    /\ rm' = [rm EXCEPT !.tried = Append(@, outcome),
                        !.pc = IF outcome = "ok" THEN "returned" ELSE "raised",
                        !.error = IF outcome = "ok" THEN @ ELSE outcome]
    /\ UNCHANGED <<fs, lk, notFile>>

RmtreeNext ==
    \/ \E outcome \in RmtreeOutcomes : RmtreeTry(outcome)
    \/ RmtreeSleep
    \/ \E outcome \in RmtreeOutcomes : RmtreeFinal(outcome)

\* the call keeps running until it returns or raises
SpecRmtree == RmtreeInit /\ [][RmtreeNext]_vars /\ WF_vars(RmtreeNext)

RECURSIVE PowerOfTwo(_)
PowerOfTwo(k) == IF k = 0 THEN 1 ELSE 2 * PowerOfTwo(k - 1)

\* the attempts and waits made so far follow the retry policy
RetryPolicy ==
    /\ Len(rm.tried) <= rm.max_retries + 1
    /\ \A k \in 1..(Len(rm.tried) - 1) : rm.tried[k] = "OSError"
    /\ \A k \in 1..Len(rm.slept) : rm.slept[k] = PowerOfTwo(k - 1)
    /\ rm.pc = "loop" => Len(rm.slept) = Len(rm.tried)
    /\ rm.pc = "sleep" => Len(rm.slept) = Len(rm.tried) - 1
    /\ rm.pc = "returned" <=> (rm.tried # <<>> /\ rm.tried[Len(rm.tried)] = "ok")
    /\ rm.pc = "raised" =>
          /\ rm.error = rm.tried[Len(rm.tried)]
          /\ rm.error = "OSError" => Len(rm.tried) = rm.max_retries + 1

\* C14: robust_rmtree(path, max_retries=n) ends after at most n+1 attempts;
\* it returns at its first successful attempt and makes no attempt after
\* it; after the k-th attempt that fails with OSError (k = 1..n) it waits
\* 2^(k-1) seconds and retries; and the error of the (n+1)-th attempt is
\* raised to the caller.
C14_RetriesThenPropagates == [](RetryPolicy) /\ <>(rm.pc \in {"returned", "raised"})

\* max_retries = 2 and three attempts failed with OSError: waits of 1 and
\* 2 seconds, then the error of the third attempt raised
C14_Witness ==
    /\ rm.max_retries = 2
    /\ rm.tried = <<"OSError", "OSError", "OSError">>
    /\ rm.slept = <<1, 2>>
    /\ rm.pc = "raised"
    /\ rm.error = "OSError"

====
